---- MODULE Spec2Model ----
\* The persisted RBAC data model of flask_appbuilder/security/sqla/models.py:
\* the tables of the store with the constraints the schema declares (unique
\* columns, unique pairs, foreign keys with and without ON DELETE CASCADE),
\* the column defaults of ab_user, the ORM relationships, and ViewMenu's
\* equality.  The registry, linker and mutator operations of the security
\* manager are not part of models.py; they follow the contracts of spec.md
\* sections 4 and 5 and run against the schema modelled here.
EXTENDS Naturals, FiniteSets, Bags, TLC

VARIABLES
    ab_permission,            \* rows [id, name] of table ab_permission
    ab_view_menu,             \* rows [id, name] of table ab_view_menu
    ab_permission_view,       \* rows [id, permission_id, view_menu_id]
    ab_role,                  \* ids of the rows of ab_role
    ab_user,                  \* rows [id, created_by_fk, changed_by_fk]
    ab_group,                 \* ids of the rows of ab_group
    ab_permission_view_role,  \* bag of rows [permission_view_id, role_id]
    ab_user_role,             \* bag of rows [user_id, role_id]
    ab_user_group,            \* bag of rows [user_id, group_id]
    ab_group_role,            \* bag of rows [group_id, role_id]
    seq,                      \* last value handed out by each id Sequence
    _dont_audit,              \* the module-level flag of models.py
    g,                        \* flask.g of every request: its application context
    proc,                     \* the call each worker is in, and where in it
    last,                     \* history: what the last step did
    hist,                     \* history: the row ids every lookup-or-create returned
    inst,                     \* in-memory instances held by a caller
    cmp                       \* results of comparing the instances pairwise

vars == <<ab_permission, ab_view_menu, ab_permission_view, ab_role, ab_user,
          ab_group, ab_permission_view_role, ab_user_role, ab_user_group,
          ab_group_role, seq, _dont_audit, g, proc, last, hist, inst, cmp>>

\* What the callers hold outside the store.
callers == <<proc, hist, inst, cmp>>

tables == <<ab_permission, ab_view_menu, ab_permission_view, ab_role, ab_user,
            ab_group, ab_permission_view_role, ab_user_role, ab_user_group,
            ab_group_role, seq>>

\* ---------------------------------------------------------------- bounds

\* Names a Permission or a ViewMenu may carry.
Names == {"can_edit", "UserView"}

\* Highest id the instances compared in memory carry.
MaxId == 2

\* Number of instances a caller holds at once.
NInst == 3

\* Python's None, SQL NULL: no id Sequence ever hands out 0.
None == 0

\* ------------------------------------------------- ViewMenu equality

Classes == {"ViewMenu", "Permission"}

Instances == [cls : Classes, id : 1..MaxId, name : Names]

Slots == 1..NInst

\* isinstance(other, cls): models.py declares no subclass of an entity class.
isinstance(other, cls) == other.cls = cls

\* ViewMenu.__eq__ with the type test dropped.
ViewMenu__eq__NameOnly(self, other) == self.name = other.name

\* ViewMenu.__eq__
ViewMenu__eq__(self, other) ==
    isinstance(other, self.cls) /\ (self.name = other.name)

\* ViewMenu.__neq__: an ordinary method; Python's != never calls it.
ViewMenu__neq__(self, other) == self.name # other.name

\* object.__eq__, which Permission inherits: identity, else NotImplemented.
object__eq__(i, j) == IF i = j THEN "True" ELSE "NotImplemented"

\* One side's __eq__ applied to the instances in slots i and j.
type__eq__(i, j) ==
    IF inst[i].cls = "ViewMenu"
    THEN IF ViewMenu__eq__(inst[i], inst[j]) THEN "True" ELSE "False"
    ELSE object__eq__(i, j)

\* Python's  a == b  on the instances in slots i and j: the left operand's
\* __eq__, then the reflected one when that returns NotImplemented, then
\* identity.
PyEq(i, j) ==
    LET first == type__eq__(i, j)
        refl  == type__eq__(j, i)
    IN  IF first # "NotImplemented" THEN first = "True"
        ELSE IF refl # "NotImplemented" THEN refl = "True"
        ELSE i = j

\* Python 3's  a != b : no __ne__ is defined, so object.__ne__ inverts __eq__.
PyNe(i, j) ==
    LET first == type__eq__(i, j)
        refl  == type__eq__(j, i)
    IN  IF first # "NotImplemented" THEN first # "True"
        ELSE IF refl # "NotImplemented" THEN refl # "True"
        ELSE i # j

NoCmp == [done |-> FALSE, eq |-> {}, ne |-> {}]

InitEq ==
    /\ inst \in [Slots -> Instances]
    /\ cmp = NoCmp

\* A query result replaces the instance in slot i.
Fetch(i, o) ==
    /\ inst[i] # o
    /\ inst' = [inst EXCEPT ![i] = o]
    /\ cmp' = NoCmp
    /\ UNCHANGED <<tables, _dont_audit, g, proc, last, hist>>

\* The caller evaluates a == b and a != b for every pair of its instances.
Compare ==
    /\ ~cmp.done
    /\ cmp' = [done |-> TRUE,
               eq |-> {p \in Slots \X Slots : PyEq(p[1], p[2])},
               ne |-> {p \in Slots \X Slots : PyNe(p[1], p[2])}]
    /\ UNCHANGED <<inst, tables, _dont_audit, g, proc, last, hist>>

\* ------------------------------------------------------------ the schema

\* Highest value an id Sequence hands out.
MaxSeq == 2

\* Most association rows the store holds at once, all four tables together.
MaxRows == 5

EntityTables == {"ab_permission", "ab_view_menu", "ab_permission_view",
                 "ab_role", "ab_user", "ab_group"}

\* Sequence("ab_..._id_seq"): the id the next row of table t gets.
Sequence(t) == seq[t] + 1

IdsOf(rows) == {r.id : r \in rows}

\* ab_permission.name / ab_view_menu.name declared without unique=True.
NameUnique_Missing(rows, name) == TRUE

\* Column("name", unique=True) of ab_permission and ab_view_menu.
NameUnique(rows, name) == \A r \in rows : r.name # name

\* ab_permission_view declared without its UniqueConstraint.
UC_permission_view_Missing(pid, vid) == TRUE

\* UniqueConstraint("permission_id", "view_menu_id") of ab_permission_view.
UC_permission_view(pid, vid) ==
    \A r \in ab_permission_view :
        ~(r.permission_id = pid /\ r.view_menu_id = vid)

\* ForeignKey("ab_permission.id"), ForeignKey("ab_view_menu.id").
FK_permission_view(pid, vid) ==
    pid \in IdsOf(ab_permission) /\ vid \in IdsOf(ab_view_menu)

\* ab_permission_view_role declared without its UniqueConstraint.
UC_permission_view_role_Missing(row) == TRUE

\* UniqueConstraint("permission_view_id", "role_id").
UC_permission_view_role(row) == CopiesIn(row, ab_permission_view_role) = 0

\* ForeignKey("ab_permission_view.id"), ForeignKey("ab_role.id").
FK_permission_view_role(row) ==
    /\ row.permission_view_id \in IdsOf(ab_permission_view)
    /\ row.role_id \in ab_role

\* UniqueConstraint("user_id", "role_id").
UC_user_role(row) == CopiesIn(row, ab_user_role) = 0

\* ForeignKey("ab_user.id"), ForeignKey("ab_role.id").
FK_user_role(row) ==
    row.user_id \in IdsOf(ab_user) /\ row.role_id \in ab_role

\* UniqueConstraint("user_id", "group_id").
UC_user_group(row) == CopiesIn(row, ab_user_group) = 0

\* ForeignKey("ab_user.id"), ForeignKey("ab_group.id").
FK_user_group(row) ==
    row.user_id \in IdsOf(ab_user) /\ row.group_id \in ab_group

\* UniqueConstraint("group_id", "role_id").
UC_group_role(row) == CopiesIn(row, ab_group_role) = 0

\* ForeignKey("ab_group.id"), ForeignKey("ab_role.id").
FK_group_role(row) ==
    row.group_id \in ab_group /\ row.role_id \in ab_role

\* ForeignKey("ab_user.id") of created_by_fk and changed_by_fk, nullable.
FK_user_audit(id) == id = None \/ id \in IdsOf(ab_user)

\* A foreign key declared without ondelete="CASCADE" and not enforced.
OnDeleteNothing(bag, col, id) == bag

\* ondelete="CASCADE": the rows of an association table whose column col
\* holds the deleted id go with the row they reference.
OnDeleteCascade(bag, col, id) ==
    [row \in {x \in DOMAIN bag : x[col] # id} |-> bag[row]]

\* INSERT of one association row.
InsertRow(bag, row) == bag (+) SetToBag({row})

\* DELETE of the association rows equal to row.
DeleteRows(bag, row) == [x \in DOMAIN bag \ {row} |-> bag[x]]

\* Most Role, Group, PermissionView and User rows the store holds at once.
MaxLive == 3

LiveCount ==
    Cardinality(ab_role) + Cardinality(ab_group)
    + Cardinality(ab_permission_view) + Cardinality(ab_user)

RowCount ==
    BagCardinality(ab_permission_view_role) + BagCardinality(ab_user_role)
    + BagCardinality(ab_user_group) + BagCardinality(ab_group_role)

\* ---------------------------------------------------- ORM relationships

\* Role.permissions: secondary=assoc_permissionview_role.
Role_permissions(r) ==
    {pv \in IdsOf(ab_permission_view) :
        CopiesIn([permission_view_id |-> pv, role_id |-> r],
                 ab_permission_view_role) > 0}

\* User.roles: secondary=assoc_user_role.
User_roles(u) ==
    {r \in ab_role :
        CopiesIn([user_id |-> u, role_id |-> r], ab_user_role) > 0}

\* User.groups, the backref of Group.users: secondary=assoc_user_group.
User_groups(u) ==
    {gr \in ab_group :
        CopiesIn([user_id |-> u, group_id |-> gr], ab_user_group) > 0}

\* Group.roles declared with secondary=assoc_user_role instead.
Group_roles_WrongSecondary(gr) ==
    {r \in ab_role :
        CopiesIn([user_id |-> gr, role_id |-> r], ab_user_role) > 0}

\* Group.roles: secondary=assoc_group_role.
Group_roles(gr) ==
    {r \in ab_role :
        CopiesIn([group_id |-> gr, role_id |-> r], ab_group_role) > 0}

\* ------------------------------------------ association mutators (4.3-4.5)

PVR(pv, r) == [permission_view_id |-> pv, role_id |-> r]
UR(u, r)   == [user_id |-> u, role_id |-> r]
UG(u, gr)  == [user_id |-> u, group_id |-> gr]
GR(gr, r)  == [group_id |-> gr, role_id |-> r]

\* Before any step, and after a step no property asks about.
NoOp == [op |-> "none", id |-> None]
Other == [op |-> "other", id |-> None]

\* permission_views(role): the current grant set.
permission_views(r) == Role_permissions(r)

\* effective_permission_views(user): the grants of the user's roles and of
\* the roles of the user's groups.
effective_permission_views(u) ==
    UNION {permission_views(r) : r \in User_roles(u)}
    \cup UNION {permission_views(r) :
                   r \in UNION {Group_roles(gr) : gr \in User_groups(u)}}

\* grant(role, permission_view): adds the unit if not already present.
grant(r, pv) ==
    /\ r \in ab_role /\ pv \in IdsOf(ab_permission_view)
    /\ IF pv \in Role_permissions(r)
       THEN UNCHANGED ab_permission_view_role
       ELSE /\ UC_permission_view_role(PVR(pv, r))
            /\ FK_permission_view_role(PVR(pv, r))
            /\ RowCount < MaxRows
            /\ ab_permission_view_role' =
                   InsertRow(ab_permission_view_role, PVR(pv, r))
    /\ last' = Other
    /\ UNCHANGED <<ab_permission, ab_view_menu, ab_permission_view, ab_role,
                   ab_user, ab_group, ab_user_role, ab_user_group,
                   ab_group_role, seq, _dont_audit, g, callers>>

\* revoke(role, permission_view): removes the unit if present.
revoke(r, pv) ==
    /\ r \in ab_role /\ pv \in IdsOf(ab_permission_view)
    /\ ab_permission_view_role' =
           IF pv \in Role_permissions(r)
           THEN DeleteRows(ab_permission_view_role, PVR(pv, r))
           ELSE ab_permission_view_role
    /\ last' = Other
    /\ UNCHANGED <<ab_permission, ab_view_menu, ab_permission_view, ab_role,
                   ab_user, ab_group, ab_user_role, ab_user_group,
                   ab_group_role, seq, _dont_audit, g, callers>>

\* add_role(user, role)
add_role(u, r) ==
    /\ u \in IdsOf(ab_user) /\ r \in ab_role
    /\ IF r \in User_roles(u)
       THEN UNCHANGED ab_user_role
       ELSE /\ UC_user_role(UR(u, r)) /\ FK_user_role(UR(u, r))
            /\ RowCount < MaxRows
            /\ ab_user_role' = InsertRow(ab_user_role, UR(u, r))
    /\ last' = Other
    /\ UNCHANGED <<ab_permission, ab_view_menu, ab_permission_view, ab_role,
                   ab_user, ab_group, ab_permission_view_role, ab_user_group,
                   ab_group_role, seq, _dont_audit, g, callers>>

\* remove_role(user, role)
remove_role(u, r) ==
    /\ u \in IdsOf(ab_user) /\ r \in ab_role
    /\ ab_user_role' = IF r \in User_roles(u)
                       THEN DeleteRows(ab_user_role, UR(u, r))
                       ELSE ab_user_role
    /\ last' = Other
    /\ UNCHANGED <<ab_permission, ab_view_menu, ab_permission_view, ab_role,
                   ab_user, ab_group, ab_permission_view_role, ab_user_group,
                   ab_group_role, seq, _dont_audit, g, callers>>

\* Group add_user(group, user)
add_user(gr, u) ==
    /\ gr \in ab_group /\ u \in IdsOf(ab_user)
    /\ IF gr \in User_groups(u)
       THEN UNCHANGED ab_user_group
       ELSE /\ UC_user_group(UG(u, gr)) /\ FK_user_group(UG(u, gr))
            /\ RowCount < MaxRows
            /\ ab_user_group' = InsertRow(ab_user_group, UG(u, gr))
    /\ last' = Other
    /\ UNCHANGED <<ab_permission, ab_view_menu, ab_permission_view, ab_role,
                   ab_user, ab_group, ab_permission_view_role, ab_user_role,
                   ab_group_role, seq, _dont_audit, g, callers>>

\* Group remove_user(group, user)
remove_user(gr, u) ==
    /\ gr \in ab_group /\ u \in IdsOf(ab_user)
    /\ ab_user_group' = IF gr \in User_groups(u)
                        THEN DeleteRows(ab_user_group, UG(u, gr))
                        ELSE ab_user_group
    /\ last' = Other
    /\ UNCHANGED <<ab_permission, ab_view_menu, ab_permission_view, ab_role,
                   ab_user, ab_group, ab_permission_view_role, ab_user_role,
                   ab_group_role, seq, _dont_audit, g, callers>>

\* Group add_role(group, role)
group_add_role(gr, r) ==
    /\ gr \in ab_group /\ r \in ab_role
    /\ IF r \in Group_roles(gr)
       THEN UNCHANGED ab_group_role
       ELSE /\ UC_group_role(GR(gr, r)) /\ FK_group_role(GR(gr, r))
            /\ RowCount < MaxRows
            /\ ab_group_role' = InsertRow(ab_group_role, GR(gr, r))
    /\ last' = Other
    /\ UNCHANGED <<ab_permission, ab_view_menu, ab_permission_view, ab_role,
                   ab_user, ab_group, ab_permission_view_role, ab_user_role,
                   ab_user_group, seq, _dont_audit, g, callers>>

\* Group remove_role(group, role)
group_remove_role(gr, r) ==
    /\ gr \in ab_group /\ r \in ab_role
    /\ ab_group_role' = IF r \in Group_roles(gr)
                        THEN DeleteRows(ab_group_role, GR(gr, r))
                        ELSE ab_group_role
    /\ last' = Other
    /\ UNCHANGED <<ab_permission, ab_view_menu, ab_permission_view, ab_role,
                   ab_user, ab_group, ab_permission_view_role, ab_user_role,
                   ab_user_group, seq, _dont_audit, g, callers>>

\* --------------------------------------------------- audit columns of User

\* Number of requests in flight at once.
NReqs == 2

\* Highest value the id Sequence of ab_user hands out.
MaxUsers == 3

Reqs == 1..NReqs

NoCtx == [kind |-> "NoCtx", id |-> None]
Anonymous == [kind |-> "Anonymous", id |-> None]
LoggedIn(u) == [kind |-> "User", id |-> u]

\* The identity request q authenticated as, None when it has none.
RequestActor(q) == IF g[q].kind = "User" THEN g[q].id ELSE None

\* get_user_id consulting the module-level flag before the context.
get_user_id_Global(q) ==
    IF _dont_audit THEN None
    ELSE IF g[q].kind = "User" THEN g[q].id ELSE None

\* User.get_user_id, called while request q's context is the current one:
\* g.user.id, and None on any exception (no application context, no g.user,
\* an anonymous g.user without an id).
get_user_id(q) ==
    IF g[q].kind = "User" THEN g[q].id ELSE None

\* Deleting a User without touching the rows that name it.
Nullify_Missing(rows, u) == rows

\* The backrefs "created" and "changed" of created_by / changed_by: when the
\* session deletes a User, the rows naming it as creator or modifier get NULL.
Nullify(rows, u) ==
    {[r EXCEPT !.created_by_fk = IF @ = u THEN None ELSE @,
               !.changed_by_fk = IF @ = u THEN None ELSE @] : r \in rows}

Audit(op, q, id, nullified) ==
    [op |-> op, id |-> id, req |-> q, nullified |-> nullified]

Referrers(u) ==
    {r \in ab_user : r.id # u /\ (r.created_by_fk = u \/ r.changed_by_fk = u)}

\* A request begins: the framework binds g.user for it.
before_request(q, who) ==
    /\ g[q].kind = "NoCtx"
    /\ g' = [g EXCEPT ![q] = who]
    /\ last' = Other
    /\ UNCHANGED <<tables, _dont_audit, callers>>

\* The request ends and its context is popped.
teardown_request(q) ==
    /\ g[q].kind # "NoCtx"
    /\ g' = [g EXCEPT ![q] = NoCtx]
    /\ last' = Other
    /\ UNCHANGED <<tables, _dont_audit, callers>>

\* Some caller assigns the module-level flag.
set_dont_audit(v) ==
    /\ _dont_audit # v
    /\ _dont_audit' = v
    /\ last' = Other
    /\ UNCHANGED <<tables, g, callers>>

\* INSERT of a User row by the code running for q (q's context, or none):
\* created_by_fk and changed_by_fk both take their default, get_user_id.  The
\* foreign key rejects the row when the id it names is no longer a User.
InsertUser(q) ==
    /\ Sequence("ab_user") <= MaxUsers /\ LiveCount < MaxLive
    /\ seq' = [seq EXCEPT !["ab_user"] = Sequence("ab_user")]
    /\ IF FK_user_audit(get_user_id(q))
       THEN /\ ab_user' = ab_user \cup
                  {[id |-> Sequence("ab_user"),
                    created_by_fk |-> get_user_id(q),
                    changed_by_fk |-> get_user_id(q)]}
       ELSE UNCHANGED ab_user
    /\ last' = Audit("insert", q, Sequence("ab_user"), 0)
    /\ UNCHANGED <<ab_permission, ab_view_menu, ab_permission_view, ab_role,
                   ab_group, ab_permission_view_role, ab_user_role,
                   ab_user_group, ab_group_role, _dont_audit, g, callers>>

\* UPDATE of a User row by the code running for q, of columns other than
\* the audit ones (none of which is modelled): neither audit column declares
\* onupdate, so both keep the value the insert gave them.
UpdateUser(q, u) ==
    /\ u \in IdsOf(ab_user)
    /\ UNCHANGED ab_user
    /\ last' = Audit("update", q, u, 0)
    /\ UNCHANGED <<ab_permission, ab_view_menu, ab_permission_view, ab_role,
                   ab_group, ab_permission_view_role, ab_user_role,
                   ab_user_group, ab_group_role, seq, _dont_audit, g, callers>>

\* DELETE of a User through the session: the rows naming it are nullified,
\* its rows of ab_user_role and ab_user_group go by ON DELETE CASCADE.
DeleteUser(q, u) ==
    /\ u \in IdsOf(ab_user)
    /\ ab_user' = Nullify({r \in ab_user : r.id # u}, u)
    /\ ab_user_role' = OnDeleteCascade(ab_user_role, "user_id", u)
    /\ ab_user_group' = OnDeleteCascade(ab_user_group, "user_id", u)
    /\ last' = Audit("delete", q, u, Cardinality(Referrers(u)))
    /\ UNCHANGED <<ab_permission, ab_view_menu, ab_permission_view, ab_role,
                   ab_group, ab_permission_view_role, ab_group_role, seq,
                   _dont_audit, g, callers>>

\* ------------------------------------------- entity create and delete

\* INSERT of a Role row.
CreateRole ==
    /\ Sequence("ab_role") <= MaxSeq /\ LiveCount < MaxLive
    /\ ab_role' = ab_role \cup {Sequence("ab_role")}
    /\ seq' = [seq EXCEPT !["ab_role"] = Sequence("ab_role")]
    /\ last' = Other
    /\ UNCHANGED <<ab_permission, ab_view_menu, ab_permission_view, ab_user,
                   ab_group, ab_permission_view_role, ab_user_role,
                   ab_user_group, ab_group_role, _dont_audit, g,
                   callers>>

\* DELETE of a Role row, with the rows that reference it.
DeleteRole(r) ==
    /\ r \in ab_role
    /\ ab_role' = ab_role \ {r}
    /\ ab_permission_view_role' =
           OnDeleteCascade(ab_permission_view_role, "role_id", r)
    /\ ab_user_role' = OnDeleteCascade(ab_user_role, "role_id", r)
    /\ ab_group_role' = OnDeleteCascade(ab_group_role, "role_id", r)
    /\ last' = [op |-> "delete_role", id |-> r,
                grants |-> Cardinality(Role_permissions(r))]
    /\ UNCHANGED <<ab_permission, ab_view_menu, ab_permission_view, ab_user,
                   ab_group, ab_user_group, seq, _dont_audit, g,
                   callers>>

\* INSERT of a Group row.
CreateGroup ==
    /\ Sequence("ab_group") <= MaxSeq /\ LiveCount < MaxLive
    /\ ab_group' = ab_group \cup {Sequence("ab_group")}
    /\ seq' = [seq EXCEPT !["ab_group"] = Sequence("ab_group")]
    /\ last' = Other
    /\ UNCHANGED <<ab_permission, ab_view_menu, ab_permission_view, ab_user,
                   ab_role, ab_permission_view_role, ab_user_role,
                   ab_user_group, ab_group_role, _dont_audit, g,
                   callers>>

\* DELETE of a Group row, with the rows that reference it.
DeleteGroup(gr) ==
    /\ gr \in ab_group
    /\ ab_group' = ab_group \ {gr}
    /\ ab_user_group' = OnDeleteCascade(ab_user_group, "group_id", gr)
    /\ ab_group_role' = OnDeleteCascade(ab_group_role, "group_id", gr)
    /\ last' = Other
    /\ UNCHANGED <<ab_permission, ab_view_menu, ab_permission_view, ab_user,
                   ab_role, ab_permission_view_role, ab_user_role, seq, _dont_audit, g,
                   callers>>

\* INSERT of a PermissionView row pairing a Permission with a ViewMenu.
CreatePermissionView(pid, vid) ==
    /\ Sequence("ab_permission_view") <= MaxSeq /\ LiveCount < MaxLive
    /\ UC_permission_view(pid, vid) /\ FK_permission_view(pid, vid)
    /\ ab_permission_view' = ab_permission_view \cup
           {[id |-> Sequence("ab_permission_view"),
             permission_id |-> pid, view_menu_id |-> vid]}
    /\ seq' = [seq EXCEPT !["ab_permission_view"] =
                              Sequence("ab_permission_view")]
    /\ last' = Other
    /\ UNCHANGED <<ab_permission, ab_view_menu, ab_role, ab_user, ab_group,
                   ab_permission_view_role, ab_user_role, ab_user_group,
                   ab_group_role, _dont_audit, g,
                   callers>>

\* DELETE of a PermissionView row, with the grants that reference it.
DeletePermissionView(pv) ==
    /\ pv \in IdsOf(ab_permission_view)
    /\ ab_permission_view' = {r \in ab_permission_view : r.id # pv}
    /\ ab_permission_view_role' =
           OnDeleteCascade(ab_permission_view_role, "permission_view_id", pv)
    /\ last' = Other
    /\ UNCHANGED <<ab_permission, ab_view_menu, ab_role, ab_user, ab_group,
                   ab_user_role, ab_user_group, ab_group_role, seq, _dont_audit, g,
                   callers>>

\* ---------------------------------- lookup-or-create under concurrency

\* Number of workers calling into the store at once.
NWorkers == 2

Workers == 1..NWorkers

Idle == [pc |-> "idle", op |-> "none", name |-> "", a |-> None, b |-> None]

\* how: "found" by the first lookup, "inserted", or "refetched" after the
\* unique constraint rejected the insert.
Returned(op, id, how, result) ==
    [op |-> op, id |-> id, how |-> how, result |-> result]

RowsNamed(rows, name) == {r \in rows : r.name = name}

TableOf(kind) == IF kind = "Permission" THEN ab_permission ELSE ab_view_menu

\* find_or_create(name), first round trip: the lookup by exact name.  A hit
\* returns the row; a miss leaves the worker about to insert.
find_or_create(w, kind, name) ==
    /\ proc[w].pc = "idle"
    /\ IF RowsNamed(TableOf(kind), name) # {}
       THEN /\ \E r \in RowsNamed(TableOf(kind), name) :
                 /\ hist' = hist \cup {[op |-> kind, name |-> name, id |-> r.id]}
                 /\ last' = Returned(kind, r.id, "found", "ok")
            /\ UNCHANGED proc
       ELSE /\ proc' = [proc EXCEPT ![w] =
                           [Idle EXCEPT !.pc = "insert", !.op = kind,
                                        !.name = name]]
            /\ last' = Other
            /\ UNCHANGED hist
    /\ UNCHANGED <<tables, _dont_audit, g, inst, cmp>>

\* find_or_create, second round trip: the INSERT.  The unique column rejects
\* it when another worker inserted the name first; the worker then re-fetches.
find_or_create_insert(w) ==
    /\ proc[w].pc = "insert" /\ proc[w].op \in {"Permission", "ViewMenu"}
    /\ LET kind == proc[w].op
           name == proc[w].name
           tbl  == IF kind = "Permission" THEN "ab_permission"
                   ELSE "ab_view_menu"
           row  == [id |-> Sequence(tbl), name |-> name]
       IN  IF NameUnique(TableOf(kind), name)
           THEN /\ Sequence(tbl) <= MaxSeq
                /\ seq' = [seq EXCEPT ![tbl] = Sequence(tbl)]
                /\ ab_permission' = IF kind = "Permission"
                                    THEN ab_permission \cup {row}
                                    ELSE ab_permission
                /\ ab_view_menu' = IF kind = "ViewMenu"
                                   THEN ab_view_menu \cup {row}
                                   ELSE ab_view_menu
                /\ hist' = hist \cup {[op |-> kind, name |-> name,
                                       id |-> row.id]}
                /\ last' = Returned(kind, row.id, "inserted", "ok")
                /\ proc' = [proc EXCEPT ![w] = Idle]
           ELSE /\ proc' = [proc EXCEPT ![w].pc = "refetch"]
                /\ last' = Other
                /\ UNCHANGED <<ab_permission, ab_view_menu, seq, hist>>
    /\ UNCHANGED <<ab_permission_view, ab_role, ab_user, ab_group,
                   ab_permission_view_role, ab_user_role, ab_user_group,
                   ab_group_role, _dont_audit, g, inst, cmp>>

\* find_or_create, after a rejected INSERT: the lookup again.
find_or_create_refetch(w) ==
    /\ proc[w].pc = "refetch" /\ proc[w].op \in {"Permission", "ViewMenu"}
    /\ LET found == RowsNamed(TableOf(proc[w].op), proc[w].name)
       IN  IF found # {}
           THEN \E r \in found :
                  /\ hist' = hist \cup {[op |-> proc[w].op,
                                         name |-> proc[w].name, id |-> r.id]}
                  /\ last' = Returned(proc[w].op, r.id, "refetched", "ok")
           ELSE /\ last' = Returned(proc[w].op, None, "refetched", "NotFound")
                /\ UNCHANGED hist
    /\ proc' = [proc EXCEPT ![w] = Idle]
    /\ UNCHANGED <<tables, _dont_audit, g, inst, cmp>>

RowsPaired(pid, vid) ==
    {r \in ab_permission_view :
        r.permission_id = pid /\ r.view_menu_id = vid}

\* link(permission, view_menu), first round trip: the lookup of the pair.
link(w, pid, vid) ==
    /\ proc[w].pc = "idle"
    /\ pid \in IdsOf(ab_permission) /\ vid \in IdsOf(ab_view_menu)
    /\ IF RowsPaired(pid, vid) # {}
       THEN /\ \E r \in RowsPaired(pid, vid) :
                 /\ hist' = hist \cup {[op |-> "link", a |-> pid, b |-> vid,
                                        id |-> r.id]}
                 /\ last' = Returned("link", r.id, "found", "ok")
            /\ UNCHANGED proc
       ELSE /\ proc' = [proc EXCEPT ![w] =
                           [Idle EXCEPT !.pc = "insert", !.op = "link",
                                        !.a = pid, !.b = vid]]
            /\ last' = Other
            /\ UNCHANGED hist
    /\ UNCHANGED <<tables, _dont_audit, g, inst, cmp>>

\* link, second round trip: the INSERT, rejected by the unique pair when
\* another worker linked the pair first.
link_insert(w) ==
    /\ proc[w].pc = "insert" /\ proc[w].op = "link"
    /\ LET pid == proc[w].a
           vid == proc[w].b
           row == [id |-> Sequence("ab_permission_view"),
                   permission_id |-> pid, view_menu_id |-> vid]
       IN  IF UC_permission_view(pid, vid) /\ FK_permission_view(pid, vid)
           THEN /\ Sequence("ab_permission_view") <= MaxSeq
                /\ seq' = [seq EXCEPT !["ab_permission_view"] = row.id]
                /\ ab_permission_view' = ab_permission_view \cup {row}
                /\ hist' = hist \cup {[op |-> "link", a |-> pid, b |-> vid,
                                       id |-> row.id]}
                /\ last' = Returned("link", row.id, "inserted", "ok")
                /\ proc' = [proc EXCEPT ![w] = Idle]
           ELSE /\ proc' = [proc EXCEPT ![w].pc = "refetch"]
                /\ last' = Other
                /\ UNCHANGED <<ab_permission_view, seq, hist>>
    /\ UNCHANGED <<ab_permission, ab_view_menu, ab_role, ab_user, ab_group,
                   ab_permission_view_role, ab_user_role, ab_user_group,
                   ab_group_role, _dont_audit, g, inst, cmp>>

\* link, after a rejected INSERT: the lookup again.
link_refetch(w) ==
    /\ proc[w].pc = "refetch" /\ proc[w].op = "link"
    /\ LET found == RowsPaired(proc[w].a, proc[w].b)
       IN  IF found # {}
           THEN \E r \in found :
                  /\ hist' = hist \cup {[op |-> "link", a |-> proc[w].a,
                                         b |-> proc[w].b, id |-> r.id]}
                  /\ last' = Returned("link", r.id, "refetched", "ok")
           ELSE /\ last' = Returned("link", None, "refetched", "NotFound")
                /\ UNCHANGED hist
    /\ proc' = [proc EXCEPT ![w] = Idle]
    /\ UNCHANGED <<tables, _dont_audit, g, inst, cmp>>

\* grant(role, permission_view) by a worker, first round trip: the lookup.
grant_call(w, r, pv) ==
    /\ proc[w].pc = "idle"
    /\ r \in ab_role /\ pv \in IdsOf(ab_permission_view)
    /\ IF pv \in Role_permissions(r)
       THEN /\ last' = Returned("grant", None, "found", "ok")
            /\ UNCHANGED proc
       ELSE /\ proc' = [proc EXCEPT ![w] =
                           [Idle EXCEPT !.pc = "insert", !.op = "grant",
                                        !.a = r, !.b = pv]]
            /\ last' = Other
    /\ UNCHANGED <<tables, _dont_audit, g, hist, inst, cmp>>

\* grant, second round trip: the INSERT of the association row.  A row the
\* unique pair rejects is already granted: the call ends without an error.
grant_insert(w) ==
    /\ proc[w].pc = "insert" /\ proc[w].op = "grant"
    /\ LET row == PVR(proc[w].b, proc[w].a)
       IN  IF ~FK_permission_view_role(row)
           THEN /\ last' = Returned("grant", None, "inserted",
                                    "IntegrityError")
                /\ UNCHANGED ab_permission_view_role
           ELSE IF UC_permission_view_role(row)
           THEN /\ RowCount < MaxRows
                /\ ab_permission_view_role' =
                       InsertRow(ab_permission_view_role, row)
                /\ last' = Returned("grant", None, "inserted", "ok")
           ELSE /\ last' = Returned("grant", None, "rejected", "ok")
                /\ UNCHANGED ab_permission_view_role
    /\ proc' = [proc EXCEPT ![w] = Idle]
    /\ UNCHANGED <<ab_permission, ab_view_menu, ab_permission_view, ab_role,
                   ab_user, ab_group, ab_user_role, ab_user_group,
                   ab_group_role, seq, _dont_audit, g, hist, inst, cmp>>

\* ------------------------------------------------------- specifications

\* The rows the sync process registered: every name, as Permission and as
\* ViewMenu.
Registered ==
    {[id |-> 1, name |-> "can_edit"], [id |-> 2, name |-> "UserView"]}

\* No request in flight, no caller busy, nothing compared.
Quiet ==
    /\ _dont_audit = FALSE
    /\ g = [q \in Reqs |-> NoCtx]
    /\ proc = [w \in Workers |-> Idle]
    /\ last = NoOp
    /\ hist = {}
    /\ inst = <<>>
    /\ cmp = NoCmp

NoAssociations ==
    /\ ab_permission_view_role = EmptyBag
    /\ ab_user_role = EmptyBag
    /\ ab_user_group = EmptyBag
    /\ ab_group_role = EmptyBag

\* Rows of ab_user, ab_role, ab_group and ab_permission_view the store holds
\* when the association mutators start.
NUsers == 1
NRoles == 2
NGroups == 1
NPermViews == 2

\* A store holding these rows and no association yet.
InitPerm ==
    /\ ab_permission = Registered
    /\ ab_view_menu = Registered
    /\ ab_permission_view =
         {[id |-> i, permission_id |-> 1 + ((i - 1) \div 2),
           view_menu_id |-> 1 + ((i - 1) % 2)] : i \in 1..NPermViews}
    /\ ab_role = 1..NRoles
    /\ ab_group = 1..NGroups
    /\ ab_user = {[id |-> i, created_by_fk |-> None,
                   changed_by_fk |-> None] : i \in 1..NUsers}
    /\ seq = [t \in EntityTables |->
                CASE t = "ab_user" -> NUsers
                  [] t = "ab_role" -> NRoles
                  [] t = "ab_group" -> NGroups
                  [] t = "ab_permission_view" -> NPermViews
                  [] OTHER -> 2]
    /\ NoAssociations
    /\ Quiet

Mutators ==
    \/ \E r \in ab_role, pv \in IdsOf(ab_permission_view) : grant(r, pv)
    \/ \E r \in ab_role, pv \in IdsOf(ab_permission_view) : revoke(r, pv)
    \/ \E u \in IdsOf(ab_user), r \in ab_role : add_role(u, r)
    \/ \E u \in IdsOf(ab_user), r \in ab_role : remove_role(u, r)
    \/ \E gr \in ab_group, u \in IdsOf(ab_user) : add_user(gr, u)
    \/ \E gr \in ab_group, u \in IdsOf(ab_user) : remove_user(gr, u)
    \/ \E gr \in ab_group, r \in ab_role : group_add_role(gr, r)
    \/ \E gr \in ab_group, r \in ab_role : group_remove_role(gr, r)

NextPerm == Mutators

SpecPerm == InitPerm /\ [][NextPerm]_vars

\* A store holding the registered Permissions and ViewMenus and nothing else.
InitStore ==
    /\ ab_permission = {r \in Registered : r.name = "can_edit"}
    /\ ab_view_menu = Registered
    /\ ab_permission_view = {}
    /\ ab_role = {}
    /\ ab_group = {}
    /\ ab_user = {}
    /\ seq = [t \in EntityTables |->
                IF t \in {"ab_permission", "ab_view_menu"} THEN 2 ELSE 0]
    /\ NoAssociations
    /\ Quiet

NextStore ==
    \/ Mutators
    \/ CreateRole
    \/ \E r \in ab_role : DeleteRole(r)
    \/ CreateGroup
    \/ \E gr \in ab_group : DeleteGroup(gr)
    \/ \E pid \in IdsOf(ab_permission), vid \in IdsOf(ab_view_menu) :
         CreatePermissionView(pid, vid)
    \/ \E pv \in IdsOf(ab_permission_view) : DeletePermissionView(pv)
    \/ InsertUser(1)
    \/ \E u \in IdsOf(ab_user) : DeleteUser(1, u)

SpecStore == InitStore /\ [][NextStore]_vars

InitEqSpec ==
    /\ ab_permission = {} /\ ab_view_menu = {} /\ ab_permission_view = {}
    /\ ab_role = {} /\ ab_group = {} /\ ab_user = {}
    /\ seq = [t \in EntityTables |-> 0]
    /\ NoAssociations
    /\ _dont_audit = FALSE
    /\ g = [q \in Reqs |-> NoCtx]
    /\ proc = [w \in Workers |-> Idle]
    /\ last = NoOp
    /\ hist = {}
    /\ InitEq

NextEq ==
    \/ \E i \in Slots, o \in Instances : Fetch(i, o)
    \/ Compare

SpecEq == InitEqSpec /\ [][NextEq]_vars

\* An empty store.
InitFind ==
    /\ ab_permission = {} /\ ab_view_menu = {} /\ ab_permission_view = {}
    /\ ab_role = {} /\ ab_group = {} /\ ab_user = {}
    /\ seq = [t \in EntityTables |-> 0]
    /\ NoAssociations
    /\ Quiet

NextFind ==
    \/ \E w \in Workers, kind \in {"Permission", "ViewMenu"}, name \in Names :
         find_or_create(w, kind, name)
    \/ \E w \in Workers : find_or_create_insert(w)
    \/ \E w \in Workers : find_or_create_refetch(w)

SpecFind == InitFind /\ [][NextFind]_vars

\* A store holding the registered Permissions and ViewMenus, nothing linked.
InitLink ==
    /\ ab_permission = Registered
    /\ ab_view_menu = Registered
    /\ ab_permission_view = {}
    /\ ab_role = {} /\ ab_group = {} /\ ab_user = {}
    /\ seq = [t \in EntityTables |->
                IF t \in {"ab_permission", "ab_view_menu"} THEN 2 ELSE 0]
    /\ NoAssociations
    /\ Quiet

NextLink ==
    \/ \E w \in Workers, pid \in IdsOf(ab_permission),
          vid \in IdsOf(ab_view_menu) : link(w, pid, vid)
    \/ \E w \in Workers : link_insert(w)
    \/ \E w \in Workers : link_refetch(w)

SpecLink == InitLink /\ [][NextLink]_vars

\* The store the callers of grant start from: the Roles, and the two
\* PermissionViews of the registered Permission "can_edit".
InitGrant ==
    /\ ab_permission = Registered
    /\ ab_view_menu = Registered
    /\ ab_permission_view =
         {[id |-> v.id, permission_id |-> 1, view_menu_id |-> v.id] :
            v \in Registered}
    /\ ab_role = 1..NRoles
    /\ ab_group = {}
    /\ ab_user = {}
    /\ seq = [t \in EntityTables |->
                IF t = "ab_role" THEN NRoles
                ELSE IF t \in {"ab_user", "ab_group"} THEN 0 ELSE 2]
    /\ NoAssociations
    /\ Quiet

NextGrant ==
    \/ \E w \in Workers, r \in ab_role, pv \in IdsOf(ab_permission_view) :
         grant_call(w, r, pv)
    \/ \E w \in Workers : grant_insert(w)
    \/ \E r \in ab_role, pv \in IdsOf(ab_permission_view) : revoke(r, pv)

SpecGrant == InitGrant /\ [][NextGrant]_vars

\* An empty store, no request in flight.
InitAudit == InitFind

NextAudit ==
    \/ \E q \in Reqs, u \in IdsOf(ab_user) : before_request(q, LoggedIn(u))
    \/ \E q \in Reqs : before_request(q, Anonymous)
    \/ \E q \in Reqs : teardown_request(q)
    \/ \E v \in BOOLEAN : set_dont_audit(v)
    \/ \E q \in Reqs : InsertUser(q)
    \/ \E q \in Reqs, u \in IdsOf(ab_user) : UpdateUser(q, u)
    \/ \E q \in Reqs, u \in IdsOf(ab_user) : DeleteUser(q, u)

SpecAudit == InitAudit /\ [][NextAudit]_vars

\* ----------------------------------------------------------- properties

Has(bag, row) == CopiesIn(row, bag) > 0

RowOf(u) == CHOOSE r \in ab_user : r.id = u

\* The PermissionViews granted to a Role the user holds directly, read off
\* the rows of ab_user_role and ab_permission_view_role.
DirectGrants(u) ==
    {pv \in IdsOf(ab_permission_view) :
        \E r \in ab_role :
            /\ Has(ab_user_role, UR(u, r))
            /\ Has(ab_permission_view_role, PVR(pv, r))}

\* The PermissionViews granted to a Role of a Group the user belongs to, read
\* off the rows of ab_user_group, ab_group_role and ab_permission_view_role.
GroupGrants(u) ==
    {pv \in IdsOf(ab_permission_view) :
        \E gr \in ab_group, r \in ab_role :
            /\ Has(ab_user_group, UG(u, gr))
            /\ Has(ab_group_role, GR(gr, r))
            /\ Has(ab_permission_view_role, PVR(pv, r))}

C2_NoDanglingRows ==
    /\ \A row \in BagToSet(ab_permission_view_role) :
         /\ row.permission_view_id \in IdsOf(ab_permission_view)
         /\ row.role_id \in ab_role
    /\ \A row \in BagToSet(ab_user_role) :
         row.user_id \in IdsOf(ab_user) /\ row.role_id \in ab_role
    /\ \A row \in BagToSet(ab_user_group) :
         row.user_id \in IdsOf(ab_user) /\ row.group_id \in ab_group
    /\ \A row \in BagToSet(ab_group_role) :
         row.group_id \in ab_group /\ row.role_id \in ab_role
    /\ last.op = "delete_role" =>
         /\ last.id \notin ab_role
         /\ \A row \in BagToSet(ab_permission_view_role) \cup
                        BagToSet(ab_user_role) \cup BagToSet(ab_group_role) :
              row.role_id # last.id

\* A Role holding two grants has just been deleted.
C2_Witness == last.op = "delete_role" /\ last.grants = 2

\* C3: under every interleaving of find_or_create calls no table holds two
\* rows of one name, every call returns (a lost insert race ends in a
\* re-fetch, never in a failure), all calls for one name return the same row
\* and calls for distinct names return distinct rows.
C3_FindOrCreateUnique ==
    /\ \A r1 \in ab_permission, r2 \in ab_permission :
         r1.name = r2.name => r1.id = r2.id
    /\ \A r1 \in ab_view_menu, r2 \in ab_view_menu :
         r1.name = r2.name => r1.id = r2.id
    /\ \A h1 \in hist, h2 \in hist :
         h1.op = h2.op => (h1.name = h2.name <=> h1.id = h2.id)
    /\ \A h \in hist :
         \E r \in TableOf(h.op) : r.id = h.id /\ r.name = h.name
    /\ last.op \in {"Permission", "ViewMenu"} => last.result = "ok"

\* A worker lost the insert race, re-fetched and returned the row another
\* call had returned for the same name.
C3_Witness ==
    /\ last.op \in {"Permission", "ViewMenu"}
    /\ last.how = "refetched"
    /\ last.result = "ok"
    /\ \E r \in TableOf(last.op) : r.id = last.id
    /\ \E h \in hist : h.op = last.op /\ h.id = last.id

\* C4: a grant step taken while the pair is already granted changes no row
\* and ends the call without an error, a revoke of a pair that is not
\* granted changes no row, and no pair ever has more than one row.
C4_GrantIdempotent ==
    [][ /\ \A w \in Workers, r \in ab_role, pv \in IdsOf(ab_permission_view) :
             (grant_call(w, r, pv) /\ Has(ab_permission_view_role, PVR(pv, r)))
             => /\ ab_permission_view_role' = ab_permission_view_role
                /\ proc'[w].pc = "idle"
                /\ last'.op = "grant" /\ last'.result = "ok"
        /\ \A w \in Workers :
             (grant_insert(w)
                /\ Has(ab_permission_view_role, PVR(proc[w].b, proc[w].a)))
             => /\ ab_permission_view_role' = ab_permission_view_role
                /\ last'.op = "grant" /\ last'.result = "ok"
        /\ \A r \in ab_role, pv \in IdsOf(ab_permission_view) :
             (revoke(r, pv) /\ ~Has(ab_permission_view_role, PVR(pv, r)))
             => ab_permission_view_role' = ab_permission_view_role
        /\ \A row \in DOMAIN ab_permission_view_role' :
             CopiesIn(row, ab_permission_view_role') = 1
      ]_vars

\* A grant of a pair that was already granted has just ended, the pair's one
\* row still there.
C4_Witness ==
    /\ last.op = "grant" /\ last.how = "found" /\ last.result = "ok"
    /\ BagCardinality(ab_permission_view_role) >= 1

\* C5: in every reachable state at most one PermissionView row exists for a
\* (permission_id, view_menu_id) pair, and every call of link for a pair
\* returns that one row.
C5_LinkIdempotent ==
    /\ \A r1 \in ab_permission_view, r2 \in ab_permission_view :
         (r1.permission_id = r2.permission_id
            /\ r1.view_menu_id = r2.view_menu_id) => r1.id = r2.id
    /\ \A h1 \in hist, h2 \in hist :
         (h1.a = h2.a /\ h1.b = h2.b) => h1.id = h2.id
    /\ \A h \in hist :
         \E r \in ab_permission_view :
            r.id = h.id /\ r.permission_id = h.a /\ r.view_menu_id = h.b
    /\ last.op = "link" => last.result = "ok"

\* A later call of link found the row an earlier call inserted and returned it.
C5_Witness ==
    /\ last.op = "link" /\ last.how = "found"
    /\ \E h \in hist : h.id = last.id
    /\ Cardinality(ab_permission_view) = Cardinality(hist)

Inserted == last.op = "insert" /\ last.id \in IdsOf(ab_user)

\* C6: an insert by a request with an actor leaves created_by_fk at that
\* actor, and an update by a request with an actor leaves changed_by_fk at
\* the actor performing the update.
C6_StampedAtInsertAndUpdate ==
    /\ (Inserted /\ RequestActor(last.req) # None)
         => RowOf(last.id).created_by_fk = RequestActor(last.req)
    /\ (last.op = "update" /\ RequestActor(last.req) # None)
         => RowOf(last.id).changed_by_fk = RequestActor(last.req)

\* C7: an insert by a caller without an actor, or made while _dont_audit is
\* set, completes and leaves both audit columns it writes NULL.  (An update
\* writes no audit column, so the insert is the operation that writes.)
C7_NullWithoutActorOrSuppressed ==
    (last.op = "insert" /\ (RequestActor(last.req) = None \/ _dont_audit))
      => /\ last.id \in IdsOf(ab_user)
         /\ RowOf(last.id).created_by_fk = None
         /\ RowOf(last.id).changed_by_fk = None

C9_AuditReferencesExist ==
    \A r \in ab_user :
        /\ r.created_by_fk = None \/ r.created_by_fk \in IdsOf(ab_user)
        /\ r.changed_by_fk = None \/ r.changed_by_fk \in IdsOf(ab_user)

\* A User that other rows named as creator has just been deleted.
C9_Witness ==
    /\ last.op = "delete" /\ last.nullified >= 1
    /\ last.id \notin IdsOf(ab_user)

IsViewMenu(i) == inst[i].cls = "ViewMenu"

\* C10: on ViewMenu instances == holds exactly when the names are equal,
\* whatever the ids; it is reflexive, symmetric and transitive; != is its
\* negation; a ViewMenu and an instance of another entity are never equal.
C10_EqualityByName ==
    cmp.done =>
      /\ \A i \in Slots, j \in Slots :
           /\ (IsViewMenu(i) /\ IsViewMenu(j))
                => (<<i, j>> \in cmp.eq <=> inst[i].name = inst[j].name)
           /\ (IsViewMenu(i) # IsViewMenu(j)) => <<i, j>> \notin cmp.eq
           /\ (IsViewMenu(i) \/ IsViewMenu(j))
                => (<<i, j>> \in cmp.ne <=> <<i, j>> \notin cmp.eq)
           /\ <<i, j>> \in cmp.eq <=> <<j, i>> \in cmp.eq
      /\ \A i \in Slots : <<i, i>> \in cmp.eq
      /\ \A i \in Slots, j \in Slots, k \in Slots :
           (<<i, j>> \in cmp.eq /\ <<j, k>> \in cmp.eq) => <<i, k>> \in cmp.eq

\* Two ViewMenus of one name and different ids compared equal, and a
\* Permission of that name compared unequal to them.
C10_Witness ==
    /\ cmp.done
    /\ \E i \in Slots, j \in Slots, k \in Slots :
         /\ IsViewMenu(i) /\ IsViewMenu(j) /\ ~IsViewMenu(k)
         /\ inst[i].id # inst[j].id
         /\ inst[i].name = inst[j].name /\ inst[k].name = inst[i].name
         /\ <<i, j>> \in cmp.eq /\ <<i, k>> \notin cmp.eq
         /\ <<k, i>> \in cmp.ne

====
